---- MODULE Spec2Model ----
(***************************************************************************)
(* Astar chain specification (bin/collator/src/parachain/chain_spec/       *)
(* astar.rs): genesis assembly (make_genesis), the chain specification     *)
(* built by get_chain_spec, and the node launcher invoking the stored      *)
(* genesis producer.                                                       *)
(*                                                                         *)
(* Balances are counted in whole ASTR: the runtime's ASTR constant is the  *)
(* unit, so `n * ASTR` of the source is the number n here.                 *)
(***************************************************************************)
EXTENDS Integers, Sequences, FiniteSets, TLC

\* ---------------------------------------------------------------- bounds
MaxAddr == 3          \* reserved precompile addresses are drawn from 1..MaxAddr
MaxInvocations == 4   \* how often the launcher invokes the genesis producer
MaxBalances == 2      \* length of the balances argument of make_genesis

\* ------------------------------------------------------------- constants
PARA_ID == 2006
ASTR == 1

None == <<>>
Some(v) == <<v>>
Default == "default"

Range(s) == {s[i] : i \in DOMAIN s}

\* sequences over S of length <= n without a repeated element
DistinctSeqs(S, n) ==
    {s \in UNION {[1..k -> S] : k \in 0..n} :
        \A i, j \in DOMAIN s : i # j => s[i] # s[j]}

SeqsUpTo(S, n) == UNION {[1..k -> S] : k \in 0..n}

\* ------------------------------------------------------------------ state
VARIABLES
    WASM_BINARY,     \* the runtime's compiled code blob: None or Some(blob)
    usedAddresses,   \* what Precompiles::used_addresses() iterates over
    chainSpec,       \* None, or Some(the value returned by get_chain_spec)
    produced,        \* the genesis values the stored producer has returned
    aborted,         \* TRUE once a producer invocation has panicked
    genesis          \* None, or Some(result of a direct make_genesis call)

vars == <<WASM_BINARY, usedAddresses, chainSpec, produced, aborted, genesis>>

\* ------------------------------------------------------- key derivation
\* super::get_from_seed: the public key of the pair derived from "//seed"
get_from_seed(TPublic, seed) == [scheme |-> TPublic, suri |-> <<"//", seed>>]

\* AccountPublic::from(public).into_account(): the account id is the
\* 32 raw bytes of the public key, whatever application type wraps them
get_account_id_from_seed(TPublic, seed) ==
    [account |-> get_from_seed(TPublic, seed).suri]

session_keys(aura) == [aura |-> aura]

\* ------------------------------------------------------------- Permill
Min(a, b) == IF a < b THEN a ELSE b

\* variant: the percentage scaled to parts per thousand
from_percent_permille(x) == Min(x, 100) * 1000

\* Permill::from_percent: parts per million, saturating at 100%
from_percent(x) == Min(x, 100) * 10000

\* ------------------------------------------------------------ make_genesis
\* let authorities = vec![(Alice, Aura(Alice)), (Bob, Aura(Bob))]
authorities ==
    << <<get_account_id_from_seed("sr25519", "Alice"), get_from_seed("AuraId", "Alice")>>,
       <<get_account_id_from_seed("sr25519", "Bob"), get_from_seed("AuraId", "Bob")>> >>

\* (PUSH1 0x00 PUSH1 0x00 REVERT) = [0x60, 0x00, 0x60, 0x00, 0xFD]
revert_bytecode == <<96, 0, 96, 0, 253>>

\* variant: every account bound to the authoring key of the first authority
session_keys_of_first_key(auths) ==
    [i \in DOMAIN auths |-> <<auths[i][1], auths[i][1], session_keys(auths[1][2])>>]

\* session.keys: authorities.iter().map(|x| (x.0, x.0, session_keys(x.1))).collect()
session_keys_of(auths) ==
    [i \in DOMAIN auths |-> <<auths[i][1], auths[i][1], session_keys(auths[i][2])>>]

\* collator_selection.invulnerables: authorities.iter().map(|x| x.0).collect()
invulnerables_of(auths) == [i \in DOMAIN auths |-> auths[i][1]]

\* the account pre-deployed under one precompile address
precompile_account(addr) ==
    <<addr, [nonce |-> 0, balance |-> 0, storage |-> <<>>, code |-> revert_bytecode]>>

\* BTreeMap::insert on a map kept as a key-ordered sequence of (key, value)
BTreeMap_insert(m, e) ==
    SelectSeq(m, LAMBDA x : x[1] < e[1]) \o <<e>> \o SelectSeq(m, LAMBDA x : x[1] > e[1])

\* Iterator::collect into the BTreeMap of EVMConfig.accounts
RECURSIVE collect(_)
collect(pairs) ==
    IF pairs = <<>> THEN <<>>
    ELSE BTreeMap_insert(collect(SubSeq(pairs, 1, Len(pairs) - 1)), pairs[Len(pairs)])

\* variant: the first reserved address is skipped
evm_accounts_skip_first(addrs) ==
    collect([i \in 1..(Len(addrs) - 1) |-> precompile_account(addrs[i + 1])])

\* evm.accounts: Precompiles::used_addresses().map(|addr| (addr, account)).collect()
evm_accounts(addrs) == collect([i \in DOMAIN addrs |-> precompile_account(addrs[i])])

reward_portion ==
    <<from_percent(40), from_percent(30), from_percent(20), from_percent(10)>>

slot_distribution ==
    <<from_percent(10), from_percent(20), from_percent(30), from_percent(40)>>

DynamicTvlAmount(amount, minimum_amount) ==
    [variant |-> "DynamicTvlAmount", amount |-> amount, minimum_amount |-> minimum_amount]

FixedTvlAmount(amount) == [variant |-> "FixedTvlAmount", amount |-> amount]

\* variant: amount and minimum_amount of the third tier exchanged
tier_thresholds_swapped ==
    <<DynamicTvlAmount(30000 * ASTR, 20000 * ASTR),
      DynamicTvlAmount(7500 * ASTR, 5000 * ASTR),
      DynamicTvlAmount(15000 * ASTR, 20000 * ASTR),
      FixedTvlAmount(5000 * ASTR)>>

tier_thresholds ==
    <<DynamicTvlAmount(30000 * ASTR, 20000 * ASTR),
      DynamicTvlAmount(7500 * ASTR, 5000 * ASTR),
      DynamicTvlAmount(20000 * ASTR, 15000 * ASTR),
      FixedTvlAmount(5000 * ASTR)>>

\* variant: one slot count missing
slots_per_tier_short == <<10, 20, 30>>

slots_per_tier == <<10, 20, 30, 40>>

dapp_staking ==
    [reward_portion |-> reward_portion,
     slot_distribution |-> slot_distribution,
     tier_thresholds |-> tier_thresholds,
     slots_per_tier |-> slots_per_tier]

\* wasm_binary_unwrap(): the blob; the caller panics when there is none
wasm_binary_unwrap == WASM_BINARY[1]

make_genesis(balances, root_key, parachain_id) ==
    [system |-> [code |-> wasm_binary_unwrap],
     sudo |-> [key |-> Some(root_key)],
     parachain_info |-> [parachain_id |-> parachain_id],
     balances |-> [balances |-> balances],
     vesting |-> [vesting |-> <<>>],
     session |-> [keys |-> session_keys_of(authorities)],
     aura |-> [authorities |-> <<>>],
     aura_ext |-> Default,
     collator_selection |->
        [desired_candidates |-> 32,
         candidacy_bond |-> 3200000 * ASTR,
         invulnerables |-> invulnerables_of(authorities)],
     evm |-> [accounts |-> evm_accounts(usedAddresses)],
     ethereum |-> Default,
     polkadot_xcm |-> Default,
     assets |-> Default,
     parachain_system |-> Default,
     transaction_payment |-> Default,
     dapp_staking |-> dapp_staking,
     inflation |-> [params |-> Default]]

\* ---------------------------------------------------------- get_chain_spec
\* PARA_ID.into(): ParaId is a wrapper of the u32
ParaId_from(n) == [para_id |-> n]

\* variant: Bob as root
sudo_key_bob == get_account_id_from_seed("sr25519", "Bob")

sudo_key == get_account_id_from_seed("sr25519", "Alice")

\* variant: Bob is not endowed
endowned_alice_only ==
    << <<get_account_id_from_seed("sr25519", "Alice"), 1000000000 * ASTR>> >>

endowned ==
    << <<get_account_id_from_seed("sr25519", "Alice"), 1000000000 * ASTR>>,
       <<get_account_id_from_seed("sr25519", "Bob"), 1000000000 * ASTR>> >>

properties == [tokenSymbol |-> "ASTR", tokenDecimals |-> 18]

\* variant: the extensions carry another parachain id
extensions_other_para == [bad_blocks |-> Default, relay_chain |-> "tokyo", para_id |-> 2007]

extensions == [bad_blocks |-> Default, relay_chain |-> "tokyo", para_id |-> PARA_ID]

\* what `move || ...` captures: endowned and sudo_key, by value
captured == [endowned |-> endowned, sudo_key |-> sudo_key]

\* Clone::clone of a Vec or an AccountId
clone(v) == v

\* the closure body: make_genesis(endowned.clone(), sudo_key.clone(), PARA_ID.into())
genesis_producer(env) ==
    make_genesis(clone(env.endowned), clone(env.sudo_key), ParaId_from(PARA_ID))

\* variant: the call moves the endowments out of the closure
env_after_call_moved(env) == [env EXCEPT !.endowned = <<>>]

\* the environment the closure is left with after a call: it only borrows
env_after_call(env) == env

get_chain_spec ==
    [name |-> "Astar Testnet",
     id |-> "astar",
     chain_type |-> "Development",
     genesis_producer |-> captured,
     boot_nodes |-> <<>>,
     telemetry_endpoints |-> None,
     protocol_id |-> None,
     fork_id |-> None,
     properties |-> Some(properties),
     extensions |-> extensions]

\* ------------------------------------------------------------- inputs
Seeds == {"Alice", "Bob", "Charlie"}
Accounts == {get_account_id_from_seed("sr25519", s) : s \in Seeds}
Amounts == {0, 1000000000 * ASTR}
ParaIds == {ParaId_from(1000), ParaId_from(PARA_ID)}
Addresses == 1..MaxAddr

\* ---------------------------------------------------------------- actions
Init ==
    /\ WASM_BINARY \in {None, Some("wasm")}
    /\ usedAddresses \in DistinctSeqs(Addresses, MaxAddr)
    /\ chainSpec = None
    /\ produced = <<>>
    /\ aborted = FALSE
    /\ genesis = None

\* the node calls get_chain_spec(); genesis is not built yet
GetChainSpec ==
    /\ chainSpec = None
    /\ ~aborted
    /\ chainSpec' = Some(get_chain_spec)
    /\ UNCHANGED <<WASM_BINARY, usedAddresses, produced, aborted, genesis>>

\* the launcher invokes the stored producer; wasm_binary_unwrap panics
\* (the process aborts) when the blob is missing
InvokeProducer ==
    /\ chainSpec # None
    /\ ~aborted
    /\ Len(produced) < MaxInvocations
    /\ IF WASM_BINARY = None
       THEN /\ aborted' = TRUE
            /\ UNCHANGED <<chainSpec, produced>>
       ELSE /\ produced' = Append(produced, genesis_producer(chainSpec[1].genesis_producer))
            /\ chainSpec' = Some([chainSpec[1] EXCEPT
                   !.genesis_producer = env_after_call(chainSpec[1].genesis_producer)])
            /\ UNCHANGED aborted
    /\ UNCHANGED <<WASM_BINARY, usedAddresses, genesis>>

Next == GetChainSpec \/ InvokeProducer

Spec == Init /\ [][Next]_vars

\* make_genesis applied once to arbitrary arguments
CallMakeGenesis(balances, root_key, parachain_id) ==
    /\ ~aborted
    /\ genesis = None
    /\ IF WASM_BINARY = None
       THEN /\ aborted' = TRUE
            /\ UNCHANGED genesis
       ELSE /\ genesis' = Some(make_genesis(balances, root_key, parachain_id))
            /\ UNCHANGED aborted
    /\ UNCHANGED <<WASM_BINARY, usedAddresses, chainSpec, produced>>

NextMG ==
    \E balances \in SeqsUpTo(Accounts \X Amounts, MaxBalances),
       root_key \in Accounts, parachain_id \in ParaIds :
        CallMakeGenesis(balances, root_key, parachain_id)

SpecMG == Init /\ [][NextMG]_vars

\* ------------------------------------------------------------ properties
AuthorityAccounts == {authorities[i][1] : i \in DOMAIN authorities}

Alice == get_account_id_from_seed("sr25519", "Alice")
Bob == get_account_id_from_seed("sr25519", "Bob")
Charlie == get_account_id_from_seed("sr25519", "Charlie")

RECURSIVE Sum(_)
Sum(s) == IF s = <<>> THEN 0 ELSE Sum(SubSeq(s, 1, Len(s) - 1)) + s[Len(s)]

\* every entry and every partial sum of s is at most 1,000,000 parts
WithinOne(s) ==
    /\ \A i \in DOMAIN s : s[i] <= 1000000
    /\ \A n \in 0..Len(s) : Sum(SubSeq(s, 1, n)) <= 1000000

\* C1: in the value make_genesis returns, whatever balances, root key and
\* parachain id it was given, every authority pair (a, k) has the session
\* entry (a, a, keys with aura = k), a is an invulnerable, and every
\* invulnerable is the account of some authority pair.
C1_AuthorityConsistency ==
    genesis # None =>
        LET g == genesis[1] IN
        /\ \A i \in DOMAIN authorities :
            /\ <<authorities[i][1], authorities[i][1], [aura |-> authorities[i][2]]>>
                   \in Range(g.session.keys)
            /\ authorities[i][1] \in Range(g.collator_selection.invulnerables)
        /\ Range(g.collator_selection.invulnerables) \subseteq AuthorityAccounts

\* make_genesis has run on arguments that name an account outside the
\* authority list, as endowed account and as root key
C1_Witness ==
    /\ genesis # None
    /\ genesis[1].sudo.key = Some(Charlie)
    /\ genesis[1].balances.balances = << <<Charlie, 1000000000 * ASTR>> >>
    /\ genesis[1].parachain_info.parachain_id = ParaId_from(1000)

\* C2: after make_genesis every reserved precompile address has exactly one
\* pre-seeded EVM account, with the revert stub as code and zero nonce,
\* zero balance and empty storage, and no other address is pre-seeded.
C2_PrecompileSeeding ==
    genesis # None =>
        LET accounts == genesis[1].evm.accounts IN
        /\ \A addr \in Range(usedAddresses) :
            /\ Cardinality({i \in DOMAIN accounts : accounts[i][1] = addr}) = 1
            /\ \A i \in DOMAIN accounts :
                accounts[i][1] = addr =>
                    /\ accounts[i][2].code = <<96, 0, 96, 0, 253>>
                    /\ accounts[i][2].nonce = 0
                    /\ accounts[i][2].balance = 0
                    /\ accounts[i][2].storage = <<>>
        /\ \A i \in DOMAIN accounts : accounts[i][1] \in Range(usedAddresses)

\* make_genesis has run with several reserved addresses, iterated out of
\* key order, and one address of the address space not reserved
C2_Witness ==
    /\ genesis # None
    /\ Len(usedAddresses) >= 2
    /\ usedAddresses[1] > usedAddresses[2]
    /\ Range(usedAddresses) # Addresses

\* C3: reward_portion and slot_distribution of the assembled genesis each
\* sum to exactly 1,000,000 Permill parts, no entry or partial sum above it.
C3_ScheduleTotals ==
    genesis # None =>
        LET d == genesis[1].dapp_staking IN
        /\ Sum(d.reward_portion) = 1000000
        /\ Sum(d.slot_distribution) = 1000000
        /\ WithinOne(d.reward_portion)
        /\ WithinOne(d.slot_distribution)

\* a genesis has been assembled whose schedules have several non-zero entries
C3_Witness ==
    /\ genesis # None
    /\ Len(genesis[1].dapp_staking.reward_portion) > 1
    /\ \A i \in DOMAIN genesis[1].dapp_staking.reward_portion :
        genesis[1].dapp_staking.reward_portion[i] > 0
    /\ \A i \in DOMAIN genesis[1].dapp_staking.slot_distribution :
        genesis[1].dapp_staking.slot_distribution[i] > 0

\* C4: tier_thresholds and slots_per_tier of the assembled genesis have the
\* same length, which is also the length of reward_portion and of
\* slot_distribution.
C4_TierSlotCorrespondence ==
    genesis # None =>
        LET d == genesis[1].dapp_staking IN
        /\ Len(d.tier_thresholds) = Len(d.slots_per_tier)
        /\ Len(d.reward_portion) = Len(d.tier_thresholds)
        /\ Len(d.slot_distribution) = Len(d.tier_thresholds)

\* a genesis has been assembled with a non-empty tier list
C4_Witness ==
    /\ genesis # None
    /\ Len(genesis[1].dapp_staking.tier_thresholds) > 0
    /\ Len(genesis[1].dapp_staking.slots_per_tier) > 0

\* C5: the genesis the stored producer returns has exactly the two
\* endowments (Alice and Bob, 1,000,000,000 ASTR each) as balances, Alice
\* as sudo key, exactly the two session entries Alice -> Aura(Alice) and
\* Bob -> Aura(Bob), and exactly Alice and Bob as invulnerables.
C5_DevGenesis ==
    \A n \in DOMAIN produced :
        LET g == produced[n] IN
        /\ Alice # Bob
        /\ g.balances.balances =
               << <<Alice, 1000000000 * ASTR>>, <<Bob, 1000000000 * ASTR>> >>
        /\ g.sudo.key = Some(Alice)
        /\ Len(g.session.keys) = 2
        /\ Range(g.session.keys) =
               { <<Alice, Alice, [aura |-> get_from_seed("AuraId", "Alice")]>>,
                 <<Bob, Bob, [aura |-> get_from_seed("AuraId", "Bob")]>> }
        /\ Len(g.collator_selection.invulnerables) = 2
        /\ Range(g.collator_selection.invulnerables) = {Alice, Bob}

\* the producer of the chain specification has been invoked
C5_Witness == chainSpec # None /\ Len(produced) >= 1

C7_DynamicAboveMinimum ==
    genesis # None =>
        \A i \in DOMAIN genesis[1].dapp_staking.tier_thresholds :
            LET t == genesis[1].dapp_staking.tier_thresholds[i] IN
            t.variant = "DynamicTvlAmount" => t.amount >= t.minimum_amount

\* a genesis has been assembled that has a dynamic threshold
C7_Witness ==
    /\ genesis # None
    /\ \E i \in DOMAIN genesis[1].dapp_staking.tier_thresholds :
        genesis[1].dapp_staking.tier_thresholds[i].variant = "DynamicTvlAmount"

\* C8: the tier thresholds of the assembled genesis are ordered from the
\* highest to the lowest amount: tier i has an amount >= that of tier i+1.
C8_TiersDescending ==
    genesis # None =>
        LET t == genesis[1].dapp_staking.tier_thresholds IN
        \A i \in 1..(Len(t) - 1) : t[i].amount >= t[i + 1].amount

\* C9: the parachain id in every genesis the stored producer returns equals
\* the para_id of the specification's extensions, and both are 2006.
C9_ParaIdAgreement ==
    chainSpec # None =>
        /\ chainSpec[1].extensions.para_id = 2006
        /\ \A n \in DOMAIN produced :
            /\ produced[n].parachain_info.parachain_id.para_id = 2006
            /\ produced[n].parachain_info.parachain_id.para_id
                   = chainSpec[1].extensions.para_id

\* the producer has been invoked twice on a built specification
C9_Witness == chainSpec # None /\ Len(produced) >= 2

\* C10: in every genesis the stored producer returns, each account of the
\* session-key mapping and each invulnerable has a balances entry with a
\* balance above zero.
C10_AuthoritiesEndowed ==
    \A n \in DOMAIN produced :
        LET g == produced[n]
            funded == {g.balances.balances[i][1] :
                          i \in {j \in DOMAIN g.balances.balances :
                                    g.balances.balances[j][2] > 0}}
        IN /\ \A i \in DOMAIN g.session.keys :
                g.session.keys[i][1] \in funded /\ g.session.keys[i][2] \in funded
           /\ Range(g.collator_selection.invulnerables) \subseteq funded

\* the producer has returned a genesis that has session keys and invulnerables
C10_Witness ==
    /\ Len(produced) >= 1
    /\ produced[1].session.keys # <<>>
    /\ produced[1].collator_selection.invulnerables # <<>>

====
